---------------------------- MODULE Spec2Model ----------------------------
(***************************************************************************)
(* Gen-pass: the password-policy engine of src/src/password_generator.py  *)
(* (EnterprisePasswordGenerator: generate_password, generate_passphrase,  *)
(* batch_generate, analyze_password) and the two CLI commands of           *)
(* src/src/cli.py that call it.                                            *)
(*                                                                         *)
(* Strings are sequences of code points (Python's ord).  Floating-point    *)
(* quantities are fixed-point integers: entropies in milli-bits, scores    *)
(* in milli-points, the pattern-penalty multiplier in units of 1/PenScale. *)
(***************************************************************************)
EXTENDS Integers, Sequences, FiniteSets, TLC

VARIABLES
    policy,          \* the PasswordPolicy object the caller holds and passes
    length,          \* the length argument of generate_password (None: absent)
    complexity,      \* the complexity argument of generate_password
    pc,              \* where the current call stands
    eff,             \* the policy object generate_password works on; the
                     \* parameters of the current generate_passphrase frame
    attempt,         \* loop variable of generate_password (line 433); the
                     \* number of generate_passphrase frames below the current
    password,        \* the string returned / the string being analysed
    sampled,         \* a secrets.* draw has happened during the current call
    entropy_cache,   \* self._entropy_cache: string -> entropy (milli-bits)
    analysis,        \* the PasswordAnalysis returned by analyze_password
    args,            \* the parsed command line of the CLI; the parameters
                     \* generate_passphrase or batch_generate was called with
    batch,           \* the work items of the running batch_generate call
    rng              \* the random draws of the current call, each with the
                     \* function that made it

vars == <<policy, length, complexity, pc, eff, attempt, password, sampled,
          entropy_cache, analysis, args, batch, rng>>

----------------------------------------------------------------------------
(* Bounds of the model. *)

\* longest password the generator model draws
MaxLen == 3
\* largest per-class minimum count a model policy asks for
MaxMin == 2
\* longest repetition of a four-character unit among the analysed strings
MaxRepeat == 40
\* nested generate_passphrase frames the interpreter allows before it raises
\* RecursionError (sys.getrecursionlimit() is 1000 by default)
MaxDepth == 2

----------------------------------------------------------------------------
(* CharacterSet (lines 52-61), as sets of code points. *)

LOWERCASE == 97..122
UPPERCASE == 65..90
DIGITS == 48..57
SYMBOLS_BASIC == {33, 64, 35, 36, 37, 94, 38, 42, 40, 41}
SYMBOLS_EXTENDED ==
    {33, 64, 35, 36, 37, 94, 38, 42, 40, 41, 95, 43, 45, 61, 91, 93, 123,
     125, 124, 59, 58, 44, 46, 60, 62, 63}
\* "0O1lI"
AMBIGUOUS == {48, 79, 49, 108, 73}
\* "il1Lo0O"
SIMILAR == {105, 108, 49, 76, 111, 48, 79}

\* The characters the model lets secrets.choice return: a l A 1 2 !
\* ('l' and '1' are ambiguous and similar).
Alphabet == {97, 108, 65, 49, 50, 33}

\* str.islower / isupper / isdigit of one ASCII character
islower(c) == c \in LOWERCASE
isupper(c) == c \in UPPERCASE
isdigit(c) == c \in DIGITS

----------------------------------------------------------------------------
(* String helpers: Python's str.lower, `in`, [::-1], count of a class. *)

lower(s) == [i \in 1..Len(s) |-> IF isupper(s[i]) THEN s[i] + 32 ELSE s[i]]

\* p in s
Contains(s, p) ==
    \E i \in 0..(Len(s) - Len(p)) : \A j \in 1..Len(p) : s[i + j] = p[j]

Reverse(s) == [i \in 1..Len(s) |-> s[Len(s) + 1 - i]]

\* sum(1 for c in s if c in class)
CountIn(s, class) == Cardinality({i \in 1..Len(s) : s[i] \in class})

\* any(c in class for c in s)
AnyIn(s, class) == \E i \in 1..Len(s) : s[i] \in class

\* All strings of length n over the character set cs
StringsOfLen(cs, n) == [1..n -> cs]

----------------------------------------------------------------------------
(* Class constants of EnterprisePasswordGenerator (lines 123-136). *)

WEAK_PASSWORDS == {
    <<112, 97, 115, 115, 119, 111, 114, 100>>,              \* password
    <<49, 50, 51, 52, 53, 54>>,                             \* 123456
    <<112, 97, 115, 115, 119, 111, 114, 100, 49, 50, 51>>,  \* password123
    <<97, 100, 109, 105, 110>>,                             \* admin
    <<113, 119, 101, 114, 116, 121>>,                       \* qwerty
    <<108, 101, 116, 109, 101, 105, 110>>,                  \* letmein
    <<119, 101, 108, 99, 111, 109, 101>>,                   \* welcome
    <<109, 111, 110, 107, 101, 121>>,                       \* monkey
    <<49, 50, 51, 52, 53, 54, 55, 56, 57, 48>>,             \* 1234567890
    <<97, 98, 99, 49, 50, 51>>,                             \* abc123
    <<112, 97, 115, 115, 119, 111, 114, 100, 49>>,          \* password1
    <<49, 50, 51, 52, 53, 54, 55, 56, 57>>,                 \* 123456789
    <<119, 101, 108, 99, 111, 109, 101, 49, 50, 51>>,       \* welcome123
    <<97, 100, 109, 105, 110, 49, 50, 51>> }                \* admin123

\* The entries of WORDLIST (lines 139-397) that occur in a string the model
\* draws; every other entry is a substring of none of them.
WORDLIST == {
    <<97, 108, 108>>,                       \* all
    <<108, 97, 98>>,                        \* lab
    <<98, 97, 108, 108>>,                   \* ball
    <<99, 97, 108, 108>>,                   \* call
    <<99, 111, 109, 101>>,                  \* come
    <<112, 97, 115, 115>>,                  \* pass
    <<119, 111, 114, 100>>,                 \* word
    <<115, 119, 111, 114, 100>>,            \* sword
    <<109, 111, 110, 107, 101, 121>>,       \* monkey
    <<119, 101, 108, 99, 111, 109, 101>> }  \* welcome

----------------------------------------------------------------------------
(* COMMON_PATTERNS (lines 123-129), each searched with re.IGNORECASE. *)

\* r'(.)\1{2,}': three equal characters in a row (the back-reference
\* compares case-insensitively under re.IGNORECASE)
MatchRepeated(s) ==
    \E i \in 1..(Len(s) - 2) :
        /\ lower(s)[i] = lower(s)[i + 1]
        /\ lower(s)[i] = lower(s)[i + 2]

\* r'(abc|123|qwe|asd|zxc)'
MatchSequential(s) ==
    \E p \in { <<97, 98, 99>>, <<49, 50, 51>>, <<113, 119, 101>>,
               <<97, 115, 100>>, <<122, 120, 99>> } : Contains(lower(s), p)

\* r'(password|admin|user|login|test)'
MatchCommonWord(s) ==
    \E p \in { <<112, 97, 115, 115, 119, 111, 114, 100>>,
               <<97, 100, 109, 105, 110>>, <<117, 115, 101, 114>>,
               <<108, 111, 103, 105, 110>>, <<116, 101, 115, 116>> } :
        Contains(lower(s), p)

\* r'(19|20)\d{2}'
MatchYear(s) ==
    \E i \in 1..(Len(s) - 3) :
        /\ <<s[i], s[i + 1]>> \in { <<49, 57>>, <<50, 48>> }
        /\ isdigit(s[i + 2])
        /\ isdigit(s[i + 3])

\* r'\d{4,}'
MatchLongNumber(s) ==
    \E i \in 1..(Len(s) - 3) : \A j \in 0..3 : isdigit(s[i + j])

\* how many of the five patterns match
PatternMatches(s) ==
    (IF MatchRepeated(s) THEN 1 ELSE 0) + (IF MatchSequential(s) THEN 1 ELSE 0)
    + (IF MatchCommonWord(s) THEN 1 ELSE 0) + (IF MatchYear(s) THEN 1 ELSE 0)
    + (IF MatchLongNumber(s) THEN 1 ELSE 0)

----------------------------------------------------------------------------
(* _has_keyboard_pattern (lines 914-926). *)

keyboard_patterns == {
    <<113, 119, 101, 114, 116, 121, 117, 105, 111, 112>>,   \* qwertyuiop
    <<97, 115, 100, 102, 103, 104, 106, 107, 108>>,         \* asdfghjkl
    <<122, 120, 99, 118, 98, 110, 109>>,                    \* zxcvbnm
    <<49, 50, 51, 52, 53, 54, 55, 56, 57, 48>>,             \* 1234567890
    <<33, 64, 35, 36, 37, 94, 38, 42, 40, 41>>,             \* !@#$%^&*()
    <<113, 119, 101, 114, 116, 121>>,                       \* qwerty
    <<97, 115, 100, 102>>,                                  \* asdf
    <<122, 120, 99, 118>> }                                 \* zxcv

_has_keyboard_pattern(s) ==
    \E p \in keyboard_patterns :
        Contains(lower(s), p) \/ Contains(lower(s), Reverse(p))

----------------------------------------------------------------------------
(* _calculate_pattern_penalty (lines 895-912).  The multiplier is a        *)
(* product of factors 0.8 = 4/5, 0.1 = 1/10 and 0.7 = 7/10, floored at     *)
(* 0.1: every value it takes is an exact multiple of 1/PenScale.           *)

\* the unit of the multiplier: 1.0 is PenScale
PenScale == 5 * 5 * 5 * 5 * 5 * 10 * 10

RECURSIVE TimesPointEight(_, _)
\* penalty *= 0.8, k times
TimesPointEight(pen, k) ==
    IF k = 0 THEN pen ELSE TimesPointEight((pen * 4) \div 5, k - 1)

Max(a, b) == IF a >= b THEN a ELSE b
Min(a, b) == IF a <= b THEN a ELSE b

\* penalty before the floor of line 912
PenaltyProduct(s) ==
    LET p1 == TimesPointEight(PenScale, PatternMatches(s))
        p2 == IF lower(s) \in WEAK_PASSWORDS THEN p1 \div 10 ELSE p1
        p3 == IF _has_keyboard_pattern(s) THEN (p2 * 7) \div 10 ELSE p2
    IN  p3

\* a multiplier without the floor
PenaltyWithoutFloor(s) == PenaltyProduct(s)

\* return max(penalty, 0.1)
_calculate_pattern_penalty(s) == Max(PenaltyProduct(s), PenScale \div 10)

----------------------------------------------------------------------------
(* calculate_entropy (lines 582-622), in milli-bits. *)

\* lines 599-608: the character space, by the classes present
charset_size(s) ==
    (IF AnyIn(s, LOWERCASE) THEN 26 ELSE 0)
    + (IF AnyIn(s, UPPERCASE) THEN 26 ELSE 0)
    + (IF AnyIn(s, DIGITS) THEN 10 ELSE 0)
    + (IF AnyIn(s, SYMBOLS_EXTENDED) THEN Cardinality(SYMBOLS_EXTENDED) ELSE 0)

\* math.log2(n) in milli-bits (rounded down), for the sizes charset_size takes
Log2Milli(n) ==
    CASE n = 10 -> 3321
      [] n = 26 -> 4700
      [] n = 36 -> 5169
      [] n = 52 -> 5700
      [] n = 62 -> 5954
      [] n = 78 -> 6285
      [] n = 88 -> 6459

\* lines 598-617: len(password) * log2(charset_size) * penalty.  The
\* per-character product is rounded down to a milli-bit before it is
\* multiplied by the length (the exact product exceeds 32 bits).
ComputeEntropy(s) ==
    IF charset_size(s) = 0 THEN 0
    ELSE Len(s) * ((Log2Milli(charset_size(s)) * _calculate_pattern_penalty(s))
                   \div PenScale)

\* the value calculate_entropy returns, given the cache
calculate_entropy(cache, s) ==
    IF s \in DOMAIN cache THEN cache[s]
    ELSE IF s = <<>> THEN 0
    ELSE ComputeEntropy(s)

\* a cache that stores the entropy before the pattern penalty
CacheBeforePenalty(cache, s) ==
    IF s \in DOMAIN cache \/ s = <<>> THEN cache
    ELSE (s :> (IF charset_size(s) = 0 THEN 0
                ELSE Len(s) * Log2Milli(charset_size(s)))) @@ cache

\* self._entropy_cache after calculate_entropy(s) (line 620)
CacheAfterEntropy(cache, s) ==
    IF s \in DOMAIN cache \/ s = <<>> THEN cache
    ELSE (s :> ComputeEntropy(s)) @@ cache

----------------------------------------------------------------------------
(* PasswordPolicy (lines 64-88) and _get_default_policy (lines 696-747). *)

\* the dataclass defaults; entropy_threshold in milli-bits, custom_exclusions
\* as the set of the (one-character) strings it lists
PasswordPolicy ==
    [ min_length |-> 12, max_length |-> 128,
      require_uppercase |-> TRUE, require_lowercase |-> TRUE,
      require_digits |-> TRUE, require_symbols |-> TRUE,
      min_uppercase |-> 1, min_lowercase |-> 1,
      min_digits |-> 1, min_symbols |-> 1,
      exclude_ambiguous |-> FALSE, exclude_similar |-> FALSE,
      exclude_sequential |-> TRUE, exclude_repetitive |-> TRUE,
      max_consecutive |-> 2, exclude_dictionary |-> TRUE,
      custom_exclusions |-> {}, entropy_threshold |-> 50000 ]

Complexities == {"minimum", "standard", "high", "maximum", "military"}

\* a resolution that ignores the tier
DefaultsForEveryTier(c) == PasswordPolicy

\* lines 696-747
_get_default_policy(c) ==
    CASE c = "minimum" ->
           [PasswordPolicy EXCEPT !.min_length = 8, !.require_symbols = FALSE,
                                  !.min_symbols = 0, !.entropy_threshold = 30000]
      [] c = "standard" ->
           [PasswordPolicy EXCEPT !.min_length = 12, !.entropy_threshold = 50000]
      [] c = "high" ->
           [PasswordPolicy EXCEPT !.min_length = 16,
                                  !.min_uppercase = 2, !.min_lowercase = 2,
                                  !.min_digits = 2, !.min_symbols = 2,
                                  !.exclude_ambiguous = TRUE,
                                  !.entropy_threshold = 70000]
      [] c = "maximum" ->
           [PasswordPolicy EXCEPT !.min_length = 20,
                                  !.min_uppercase = 3, !.min_lowercase = 3,
                                  !.min_digits = 3, !.min_symbols = 3,
                                  !.exclude_ambiguous = TRUE,
                                  !.exclude_similar = TRUE,
                                  !.max_consecutive = 1,
                                  !.entropy_threshold = 90000]
      [] c = "military" ->
           [PasswordPolicy EXCEPT !.min_length = 24,
                                  !.min_uppercase = 4, !.min_lowercase = 4,
                                  !.min_digits = 4, !.min_symbols = 4,
                                  !.exclude_ambiguous = TRUE,
                                  !.exclude_similar = TRUE,
                                  !.exclude_sequential = TRUE,
                                  !.exclude_repetitive = TRUE,
                                  !.max_consecutive = 1,
                                  !.entropy_threshold = 110000]
      [] OTHER -> PasswordPolicy

----------------------------------------------------------------------------
(* _validate_policy (lines 749-758). *)

min_required(p) ==
    p.min_uppercase + p.min_lowercase + p.min_digits + p.min_symbols

\* a feasibility check that compares with max_length
ValidatePolicyAgainstMax(p) == ~(min_required(p) > p.max_length)

\* TRUE when _validate_policy returns, FALSE when it raises ValueError
_validate_policy(p) == ~(min_required(p) > p.min_length)

----------------------------------------------------------------------------
(* The pattern checks of the validator (lines 847-893). *)

\* a check that looks for the listed sequences and ascending runs only
SequentialAscendingOnly(s) ==
    \/ \E q \in { <<97, 98, 99>>, <<49, 50, 51>>, <<113, 119, 101>>,
                  <<97, 115, 100>>, <<122, 120, 99>>, <<119, 101, 114>>,
                  <<101, 114, 116>>, <<114, 116, 121>> } :
           Contains(lower(s), q)
    \/ \E i \in 1..(Len(s) - 2) :
           s[i] + 1 = s[i + 1] /\ s[i + 1] + 1 = s[i + 2]

\* lines 852, 857-864
_has_sequential_pattern(s) ==
    \/ \E q \in { <<97, 98, 99>>, <<49, 50, 51>>, <<113, 119, 101>>,
                  <<97, 115, 100>>, <<122, 120, 99>>, <<119, 101, 114>>,
                  <<101, 114, 116>>, <<114, 116, 121>> } :
           Contains(lower(s), q)
    \/ \E i \in 1..(Len(s) - 2) :
           \/ s[i] + 1 = s[i + 1] /\ s[i + 1] + 1 = s[i + 2]
           \/ s[i] - 1 = s[i + 1] /\ s[i + 1] - 1 = s[i + 2]

\* the value of `count` (lines 870-877) when the loop has handled index i
\* (1-based): the length of the run of equal characters ending at i
RECURSIVE RunEndingAt(_, _)
RunEndingAt(s, i) ==
    IF i > 1 /\ s[i] = s[i - 1] THEN RunEndingAt(s, i - 1) + 1 ELSE 1

\* a check that already fires when a run reaches max_consecutive
RepetitiveFromLimit(s, max_consecutive) ==
    \E i \in 2..Len(s) :
        s[i] = s[i - 1] /\ RunEndingAt(s, i) >= max_consecutive

\* lines 870-878
_has_repetitive_pattern(s, max_consecutive) ==
    \E i \in 2..Len(s) :
        s[i] = s[i - 1] /\ RunEndingAt(s, i) > max_consecutive

_contains_dictionary_word(s) ==
    \/ lower(s) \in WEAK_PASSWORDS
    \/ \E word \in WORDLIST : Len(word) >= 4 /\ Contains(lower(s), word)

----------------------------------------------------------------------------
(* _validate_password (lines 812-845). *)

\* a validator that counts the characters of the required classes only
PassesCountingRequired(s, p) ==
    /\ p.min_length <= Len(s) /\ Len(s) <= p.max_length
    /\ ~(\/ p.require_uppercase /\ CountIn(s, UPPERCASE) < p.min_uppercase
         \/ p.require_lowercase /\ CountIn(s, LOWERCASE) < p.min_lowercase
         \/ p.require_digits /\ CountIn(s, DIGITS) < p.min_digits
         \/ p.require_symbols /\ CountIn(s, SYMBOLS_EXTENDED) < p.min_symbols)
    /\ ~(p.exclude_sequential /\ _has_sequential_pattern(s))
    /\ ~(p.exclude_repetitive /\ _has_repetitive_pattern(s, p.max_consecutive))
    /\ ~(p.exclude_dictionary /\ _contains_dictionary_word(s))

\* lines 815-839: every check before the entropy check passes
PassesBeforeEntropy(s, p) ==
    /\ p.min_length <= Len(s) /\ Len(s) <= p.max_length
    /\ ~(\/ CountIn(s, UPPERCASE) < p.min_uppercase
         \/ CountIn(s, LOWERCASE) < p.min_lowercase
         \/ CountIn(s, DIGITS) < p.min_digits
         \/ CountIn(s, SYMBOLS_EXTENDED) < p.min_symbols)
    /\ ~(p.exclude_sequential /\ _has_sequential_pattern(s))
    /\ ~(p.exclude_repetitive /\ _has_repetitive_pattern(s, p.max_consecutive))
    /\ ~(p.exclude_dictionary /\ _contains_dictionary_word(s))

\* a validator that leaves out the entropy check
ValidateWithoutEntropy(cache, s, p) == PassesBeforeEntropy(s, p)

_validate_password(cache, s, p) ==
    /\ PassesBeforeEntropy(s, p)
    /\ ~(calculate_entropy(cache, s) < p.entropy_threshold)

\* self._entropy_cache after _validate_password: calculate_entropy runs only
\* when the earlier checks have passed
CacheAfterValidate(cache, s, p) ==
    IF PassesBeforeEntropy(s, p) THEN CacheAfterEntropy(cache, s) ELSE cache

----------------------------------------------------------------------------
(* _generate_candidate_password (lines 760-810). *)

\* what secrets.choice(cs) can return in the model
Draw(cs) == cs \cap Alphabet

\* line 762: randbelow raises ValueError unless its argument is positive
LengthDrawRaises(p) == p.max_length - p.min_length + 1 <= 0

\* line 762: the lengths the draw can give
DrawnLengths(p) == p.min_length..p.max_length

\* a generator that draws no required characters
NoRequiredChars(p) == {<<>>}

\* lines 768-786: the required characters, class by class, each drawn from
\* the whole class
RequiredChars(p) ==
    LET lo == IF p.require_lowercase
              THEN StringsOfLen(Draw(LOWERCASE), Max(0, p.min_lowercase))
              ELSE {<<>>}
        up == IF p.require_uppercase
              THEN StringsOfLen(Draw(UPPERCASE), Max(0, p.min_uppercase))
              ELSE {<<>>}
        di == IF p.require_digits
              THEN StringsOfLen(Draw(DIGITS), Max(0, p.min_digits))
              ELSE {<<>>}
        sy == IF p.require_symbols
              THEN StringsOfLen(Draw(SYMBOLS_EXTENDED), Max(0, p.min_symbols))
              ELSE {<<>>}
    IN  {a \o b \o c \o d : a \in lo, b \in up, c \in di, d \in sy}

\* lines 765-796: charset, after the exclusions
Charset(p) ==
    LET all == (IF p.require_lowercase THEN LOWERCASE ELSE {})
               \cup (IF p.require_uppercase THEN UPPERCASE ELSE {})
               \cup (IF p.require_digits THEN DIGITS ELSE {})
               \cup (IF p.require_symbols THEN SYMBOLS_EXTENDED ELSE {})
        a1 == IF p.exclude_ambiguous THEN all \ AMBIGUOUS ELSE all
        a2 == IF p.exclude_similar THEN a1 \ SIMILAR ELSE a1
    IN  a2 \ p.custom_exclusions

\* line 798
PoolEmpty(p) == Charset(p) = {}

\* lines 802-805: required characters, then fill from charset up to length
BeforeShuffle(p, len) ==
    UNION { {r \o f : f \in StringsOfLen(Draw(Charset(p)), Max(0, len - Len(r)))} :
            r \in RequiredChars(p) }

\* line 808: the list after SystemRandom().shuffle, for the permutation pi
Shuffled(u, pi) == [i \in 1..Len(u) |-> u[pi[i]]]

\* every string one call of _generate_candidate_password can return for the
\* drawn length len
Candidates(p, len) ==
    UNION { {Shuffled(u, pi) : pi \in Permutations(1..Len(u))} :
            u \in BeforeShuffle(p, len) }

\* one random draw: what is drawn and the function that draws it
DrawBy(what, by) == [draw |-> what, by |-> by]

\* line 762: the length is drawn by secrets.randbelow
LengthDrawSource == "secrets.randbelow"

\* lines 771, 776, 781, 786: the required characters are drawn by
\* secrets.choice
SeedSource == "secrets.choice"

\* line 805: the fill characters are drawn by secrets.choice
FillSource == "secrets.choice"

\* a shuffle done by the random module
ShuffleByRandomModule == "random.shuffle"

\* line 808: the permutation is drawn by secrets.SystemRandom().shuffle
ShuffleSource == "secrets.SystemRandom.shuffle"

\* lines 768-786: how many required characters are drawn
RequiredCount(p) ==
    (IF p.require_lowercase THEN Max(0, p.min_lowercase) ELSE 0)
    + (IF p.require_uppercase THEN Max(0, p.min_uppercase) ELSE 0)
    + (IF p.require_digits THEN Max(0, p.min_digits) ELSE 0)
    + (IF p.require_symbols THEN Max(0, p.min_symbols) ELSE 0)

\* lines 762-786: the draws made before the charset is checked
DrawsBeforePool(p) ==
    {DrawBy("length", LengthDrawSource)}
    \cup (IF RequiredCount(p) > 0 THEN {DrawBy("seed", SeedSource)} ELSE {})

\* lines 762-808: the draws of one call that returns a candidate of length
\* len
CandidateDraws(p, len) ==
    DrawsBeforePool(p)
    \cup (IF len > RequiredCount(p) THEN {DrawBy("fill", FillSource)} ELSE {})
    \cup {DrawBy("shuffle", ShuffleSource)}

----------------------------------------------------------------------------
(* The policies and arguments the generator model is called with. *)

\* an absent argument, an unset variable; a present value v is <<v>>
None == <<>>

\* a policy with the pattern, dictionary and entropy checks switched off
Unchecked ==
    [PasswordPolicy EXCEPT !.exclude_sequential = FALSE,
                           !.exclude_repetitive = FALSE,
                           !.exclude_dictionary = FALSE,
                           !.entropy_threshold = 0]

\* the exclusion settings: <<exclude_ambiguous, exclude_similar, custom>>;
\* each leaves a character of Alphabet in every class
Exclusions ==
    { <<FALSE, FALSE, {}>>, <<TRUE, FALSE, {}>>, <<FALSE, TRUE, {}>>,
      <<FALSE, FALSE, {97}>>, <<TRUE, TRUE, {}>> }

\* policies that differ in composition, length range and exclusions
ComposePolicies ==
    { [Unchecked EXCEPT !.min_length = lo, !.max_length = hi,
                        !.require_lowercase = rl[1], !.min_lowercase = rl[2],
                        !.require_uppercase = ru, !.min_uppercase = 0,
                        !.require_digits = rd, !.min_digits = IF rd THEN 1 ELSE 0,
                        !.require_symbols = rs, !.min_symbols = IF rs THEN 1 ELSE 0,
                        !.exclude_ambiguous = ex[1], !.exclude_similar = ex[2],
                        !.custom_exclusions = ex[3]] :
        lo \in (MaxLen - 1)..MaxLen, hi \in (MaxLen - 1)..MaxLen,
        rl \in ({TRUE} \X (0..MaxMin)) \cup {<<FALSE, 0>>},
        ru \in BOOLEAN, rd \in BOOLEAN, rs \in BOOLEAN, ex \in Exclusions }

\* digits only, with an entropy threshold of 5 bits
EntropyPolicies ==
    { [Unchecked EXCEPT !.min_length = 1, !.max_length = hi,
                        !.require_lowercase = FALSE, !.min_lowercase = 0,
                        !.require_uppercase = FALSE, !.min_uppercase = 0,
                        !.require_symbols = FALSE, !.min_symbols = 0,
                        !.min_digits = md, !.entropy_threshold = 5000] :
        hi \in 1..2, md \in 0..1 }

\* lowercase only, with the repetition check on
RepetitivePolicies ==
    { [Unchecked EXCEPT !.min_length = 2, !.max_length = MaxLen,
                        !.require_uppercase = FALSE, !.min_uppercase = 0,
                        !.require_digits = FALSE, !.min_digits = 0,
                        !.require_symbols = FALSE, !.min_symbols = 0,
                        !.exclude_repetitive = TRUE, !.max_consecutive = mc] :
        mc \in 1..2 }

\* lowercase only, with a minimum for the digits, which are not required
UnrequiredMinPolicies ==
    { [Unchecked EXCEPT !.min_length = 2, !.max_length = MaxLen,
                        !.min_lowercase = ml,
                        !.require_uppercase = FALSE, !.min_uppercase = 0,
                        !.require_digits = FALSE, !.min_digits = 1,
                        !.require_symbols = FALSE, !.min_symbols = 0] :
        ml \in 0..1 }

\* digits only, with every digit listed in custom_exclusions
EmptiedPolicies ==
    { [Unchecked EXCEPT !.min_length = 2, !.max_length = MaxLen,
                        !.require_lowercase = FALSE, !.min_lowercase = 0,
                        !.require_uppercase = FALSE, !.min_uppercase = 0,
                        !.require_symbols = FALSE, !.min_symbols = 0,
                        !.min_digits = md, !.custom_exclusions = DIGITS] :
        md \in 0..1 }

ModelPolicies ==
    ComposePolicies \cup EntropyPolicies \cup RepetitivePolicies
    \cup UnrequiredMinPolicies \cup EmptiedPolicies

\* the length overrides the model passes
ModelLengths == {None} \cup {<<n>> : n \in (MaxLen - 1)..MaxLen}

----------------------------------------------------------------------------
(* generate_password (lines 404-439). *)

max_attempts == 1000

\* a loop that runs one pass too many
LoopRunsOnceMore == attempt <= max_attempts

\* line 433: for attempt in range(max_attempts) has a pass left
LoopRuns == attempt < max_attempts

Init ==
    /\ policy \in {<<p>> : p \in ModelPolicies}
    /\ length \in ModelLengths
    /\ complexity = "standard"
    /\ pc = "idle"
    /\ eff = None
    /\ attempt = 0
    /\ password = None
    /\ sampled = FALSE
    /\ rng = {}
    /\ entropy_cache = <<>>
    /\ analysis = None
    /\ batch = None
    /\ args = None

\* lines 425-427: the policy object after the length override
ApplyLength(p, len) ==
    IF len # None
    THEN [p EXCEPT !.min_length = len[1],
                   !.max_length = Max(len[1], p.max_length)]
    ELSE p

\* lines 422-430: resolve the policy, apply the override to that same
\* object, check feasibility
GenerateCall ==
    /\ pc = "idle"
    /\ LET p0 == IF policy = None THEN _get_default_policy(complexity)
                 ELSE policy[1]
           p1 == ApplyLength(p0, length)
       IN  /\ eff' = <<p1>>
           /\ policy' = IF policy = None THEN None ELSE <<p1>>
           /\ pc' = IF _validate_policy(p1) THEN "loop" ELSE "config_error"
    /\ attempt' = 0
    /\ UNCHANGED <<length, complexity, password, sampled, entropy_cache,
                   analysis, args, batch, rng>>

\* lines 433-434, 762: the length draw raises ValueError, which leaves
\* generate_password
AttemptLengthError ==
    /\ pc = "loop" /\ LoopRuns
    /\ LengthDrawRaises(eff[1])
    /\ pc' = "value_error"
    /\ UNCHANGED <<policy, length, complexity, eff, attempt, password, sampled,
                   entropy_cache, analysis, args, batch, rng>>

\* a loop that catches the ValueError of the empty charset and goes on
PoolErrorRetried ==
    /\ pc = "loop" /\ LoopRuns
    /\ ~LengthDrawRaises(eff[1])
    /\ PoolEmpty(eff[1])
    /\ attempt' = attempt + 1
    /\ sampled' = TRUE
    /\ rng' = rng \cup DrawsBeforePool(eff[1])
    /\ UNCHANGED <<policy, length, complexity, pc, eff, password,
                   entropy_cache, analysis, args, batch>>

\* lines 433-434, 762-799: length and required characters are drawn, then
\* the empty charset raises ValueError
AttemptPoolError ==
    /\ pc = "loop" /\ LoopRuns
    /\ ~LengthDrawRaises(eff[1])
    /\ PoolEmpty(eff[1])
    /\ pc' = "pool_error"
    /\ sampled' = TRUE
    /\ rng' = rng \cup DrawsBeforePool(eff[1])
    /\ UNCHANGED <<policy, length, complexity, eff, attempt, password,
                   entropy_cache, analysis, args, batch>>

\* lines 433-437: one pass of the loop: build a candidate, validate it,
\* return it or go on
Attempt ==
    /\ pc = "loop" /\ LoopRuns
    /\ ~LengthDrawRaises(eff[1])
    /\ ~PoolEmpty(eff[1])
    /\ \E len \in DrawnLengths(eff[1]) : \E s \in Candidates(eff[1], len) :
         /\ sampled' = TRUE
         /\ rng' = rng \cup CandidateDraws(eff[1], len)
         /\ entropy_cache' = CacheAfterValidate(entropy_cache, s, eff[1])
         /\ IF _validate_password(entropy_cache, s, eff[1])
            THEN pc' = "returned" /\ password' = <<s>> /\ attempt' = attempt
            ELSE pc' = "loop" /\ password' = password /\ attempt' = attempt + 1
    /\ UNCHANGED <<policy, length, complexity, eff, analysis, args, batch>>

\* line 439: the loop has run max_attempts times
Exhausted ==
    /\ pc = "loop" /\ ~LoopRuns
    /\ pc' = "exhausted"
    /\ UNCHANGED <<policy, length, complexity, eff, attempt, password, sampled,
                   entropy_cache, analysis, args, batch, rng>>

Next ==
    \/ GenerateCall
    \/ AttemptLengthError
    \/ AttemptPoolError
    \/ Attempt
    \/ Exhausted

Spec == Init /\ [][Next]_vars

----------------------------------------------------------------------------
(* Claims about generate_password. *)

\* C1: every string generate_password returns passes every check of the
\* validator against the policy in effect for the call: length range,
\* per-class minimums, the pattern and dictionary checks the policy
\* switches on, and the entropy threshold.
C1_ReturnedIsValid ==
    pc = "returned" =>
        /\ PassesBeforeEntropy(password[1], eff[1])
        /\ ComputeEntropy(password[1]) >= eff[1].entropy_threshold

\* a password returned after at least one candidate was rejected
C1_Witness == pc = "returned" /\ attempt > 0

\* C2: every character of a returned password belongs to the usable pool
\* (the required classes minus the ambiguous, similar and custom
\* exclusions the policy sets), the seeded characters included.
C2_OnlyPoolCharacters ==
    pc = "returned" =>
        \A i \in 1..Len(password[1]) : password[1][i] \in Charset(eff[1])

\* C3: when the per-class minimums add up to more than min_length (after
\* the override), the call ends in the configuration error with no random
\* draw made, no candidate built and nothing cached.
C3_InfeasibleFailsFirst ==
    (pc # "idle" /\ min_required(eff[1]) > eff[1].min_length) =>
        /\ pc = "config_error"
        /\ ~sampled
        /\ attempt = 0
        /\ password = None
        /\ entropy_cache = <<>>

\* the configuration error, brought about by the length override
C3_Witness ==
    /\ pc = "config_error"
    /\ length # None
    /\ min_required(eff[1]) > length[1]

\* C4: a call builds at most max_attempts candidates: it returns within the
\* first max_attempts passes, or raises the exhaustion error after exactly
\* max_attempts rejected candidates; every pass that stays in the loop
\* counts one rejected candidate, the loop always has a next step, and a
\* call that has ended stays ended.
C4_AtMostMaxAttempts ==
    /\ [](attempt <= max_attempts)
    /\ [](pc = "returned" => attempt < max_attempts)
    /\ [](pc = "exhausted" => attempt = max_attempts /\ password = None)
    /\ [](pc = "loop" => ENABLED Next)
    /\ [][(pc = "loop" /\ pc' = "loop") => (attempt' = attempt + 1)]_vars
    /\ [][(pc \in {"returned", "exhausted"}) => (pc' = pc /\ attempt' = attempt)]_vars

\* the exhaustion error, after max_attempts rejected candidates
C4_Witness == pc = "exhausted" /\ attempt = max_attempts

\* C5: no step of generate_password changes the policy object the caller
\* passed.
C5_PolicyUnchanged == [][(policy' = policy)]_vars

\* C6: a password returned by a call with a length override L has exactly
\* L characters.
C6_ExactLength ==
    (pc = "returned" /\ length # None) => Len(password[1]) = length[1]

----------------------------------------------------------------------------
(* The analysis functions (lines 928-1141); scores in milli-points. *)

\* a score that leaves out the pattern contribution of lines 963-964
StrengthScoreWithoutPattern(s, entropy) ==
    LET len == Len(s)
        length_score == IF len >= 20 THEN 25000
                        ELSE IF len >= 16 THEN 20000
                        ELSE IF len >= 12 THEN 15000
                        ELSE IF len >= 8 THEN 10000
                        ELSE Max(0, len * 2) * 1000
        varieties == (IF AnyIn(s, LOWERCASE) THEN 1 ELSE 0)
                     + (IF AnyIn(s, UPPERCASE) THEN 1 ELSE 0)
                     + (IF AnyIn(s, DIGITS) THEN 1 ELSE 0)
                     + (IF AnyIn(s, SYMBOLS_EXTENDED) THEN 1 ELSE 0)
        entropy_score == Min(40000, (entropy * 40) \div 100)
    IN  Min(100000, Max(0, length_score + varieties * 6250 + entropy_score))

\* lines 928-966
_calculate_strength_score(s, entropy) ==
    LET len == Len(s)
        length_score == IF len >= 20 THEN 25000
                        ELSE IF len >= 16 THEN 20000
                        ELSE IF len >= 12 THEN 15000
                        ELSE IF len >= 8 THEN 10000
                        ELSE Max(0, len * 2) * 1000
        varieties == (IF AnyIn(s, LOWERCASE) THEN 1 ELSE 0)
                     + (IF AnyIn(s, UPPERCASE) THEN 1 ELSE 0)
                     + (IF AnyIn(s, DIGITS) THEN 1 ELSE 0)
                     + (IF AnyIn(s, SYMBOLS_EXTENDED) THEN 1 ELSE 0)
        entropy_score == Min(40000, (entropy * 40) \div 100)
        \* pattern_penalty * 10, with 10 points = 10000 = PenScale * 4 / 125
        pattern_score == (_calculate_pattern_penalty(s) * 4) \div 125
    IN  Min(100000, Max(0, length_score + varieties * 6250 + entropy_score
                           + pattern_score))

\* lines 968-983
_get_strength_level(score) ==
    IF score >= 90000 THEN "EXCELLENT"
    ELSE IF score >= 80000 THEN "VERY_STRONG"
    ELSE IF score >= 70000 THEN "STRONG"
    ELSE IF score >= 60000 THEN "GOOD"
    ELSE IF score >= 40000 THEN "MODERATE"
    ELSE IF score >= 20000 THEN "WEAK"
    ELSE "VERY_WEAK"

\* line 1014: 2 ** entropy, a float power, raises OverflowError when the
\* result exceeds the largest double, that is from 1024 bits on
PowerOverflows(entropy) == entropy >= 1024 * 1000

\* lines 985-1021: the keys of the mapping returned (the formatted times
\* are not modelled); not evaluated when PowerOverflows
_estimate_crack_time(entropy) ==
    IF entropy <= 0 THEN {"instant"}
    ELSE {"online_throttled", "online_unthrottled", "offline_slow",
          "offline_fast", "massive_cracking"}

\* lines 1023-1034
_analyze_characters(s) ==
    [ has_lowercase |-> AnyIn(s, LOWERCASE),
      has_uppercase |-> AnyIn(s, UPPERCASE),
      has_digits |-> AnyIn(s, DIGITS),
      has_symbols |-> AnyIn(s, SYMBOLS_EXTENDED),
      has_ambiguous |-> AnyIn(s, AMBIGUOUS),
      has_similar |-> AnyIn(s, SIMILAR),
      only_ascii |-> \A i \in 1..Len(s) : s[i] < 128,
      has_unicode |-> \E i \in 1..Len(s) : s[i] >= 128 ]

\* lines 1036-1057
_check_policy_compliance(cache, s, p) ==
    [ length_ok |-> p.min_length <= Len(s) /\ Len(s) <= p.max_length,
      uppercase_ok |-> CountIn(s, UPPERCASE) >= p.min_uppercase,
      lowercase_ok |-> CountIn(s, LOWERCASE) >= p.min_lowercase,
      digits_ok |-> CountIn(s, DIGITS) >= p.min_digits,
      symbols_ok |-> CountIn(s, SYMBOLS_EXTENDED) >= p.min_symbols,
      no_ambiguous |-> ~p.exclude_ambiguous \/ ~AnyIn(s, AMBIGUOUS),
      no_similar |-> ~p.exclude_similar \/ ~AnyIn(s, SIMILAR),
      no_sequential |-> ~p.exclude_sequential \/ ~_has_sequential_pattern(s),
      no_repetitive |-> \/ ~p.exclude_repetitive
                        \/ ~_has_repetitive_pattern(s, p.max_consecutive),
      no_dictionary |-> ~p.exclude_dictionary \/ ~_contains_dictionary_word(s),
      entropy_ok |-> calculate_entropy(cache, s) >= p.entropy_threshold ]

\* cond ? [x] : []
Opt(cond, x) == IF cond THEN <<x>> ELSE <<>>

\* the case-sensitive r'(.)\1{2,}' of line 1085
MatchRepeatedExact(s) ==
    \E i \in 1..(Len(s) - 2) : s[i] = s[i + 1] /\ s[i] = s[i + 2]

\* the findings with the weak-password lookup done without lower-casing
VulnerabilitiesCaseSensitive(s) ==
    Opt(Len(s) < 8, "Password too short (less than 8 characters)")
    \o Opt(2 * Cardinality({s[i] : i \in 1..Len(s)}) < Len(s),
           "Low character diversity (many repeated characters)")
    \o Opt(s \in WEAK_PASSWORDS,
           "Password found in common password lists")
    \o (IF Len(s) > 0 /\ \A i \in 1..Len(s) : islower(s[i])
        THEN <<"Only lowercase letters used">>
        ELSE IF Len(s) > 0 /\ \A i \in 1..Len(s) : isupper(s[i])
        THEN <<"Only uppercase letters used">>
        ELSE IF Len(s) > 0 /\ \A i \in 1..Len(s) : isdigit(s[i])
        THEN <<"Only digits used">>
        ELSE <<>>)
    \o Opt(_has_keyboard_pattern(s), "Contains keyboard patterns")
    \o Opt(MatchYear(s), "Contains year pattern")
    \o Opt(MatchRepeatedExact(s), "Contains repeated character sequences")
    \o Opt(\E w \in { <<112, 97, 115, 115, 119, 111, 114, 100>>,
                      <<97, 100, 109, 105, 110>>, <<117, 115, 101, 114>>,
                      <<108, 111, 103, 105, 110>> } : Contains(lower(s), w),
           "Contains common password terms")

\* lines 1059-1091
_identify_vulnerabilities(s) ==
    Opt(Len(s) < 8, "Password too short (less than 8 characters)")
    \o Opt(2 * Cardinality({s[i] : i \in 1..Len(s)}) < Len(s),
           "Low character diversity (many repeated characters)")
    \o Opt(lower(s) \in WEAK_PASSWORDS,
           "Password found in common password lists")
    \o (IF Len(s) > 0 /\ \A i \in 1..Len(s) : islower(s[i])
        THEN <<"Only lowercase letters used">>
        ELSE IF Len(s) > 0 /\ \A i \in 1..Len(s) : isupper(s[i])
        THEN <<"Only uppercase letters used">>
        ELSE IF Len(s) > 0 /\ \A i \in 1..Len(s) : isdigit(s[i])
        THEN <<"Only digits used">>
        ELSE <<>>)
    \o Opt(_has_keyboard_pattern(s), "Contains keyboard patterns")
    \o Opt(MatchYear(s), "Contains year pattern")
    \o Opt(MatchRepeatedExact(s), "Contains repeated character sequences")
    \o Opt(\E w \in { <<112, 97, 115, 115, 119, 111, 114, 100>>,
                      <<97, 100, 109, 105, 110>>, <<117, 115, 101, 114>>,
                      <<108, 111, 103, 105, 110>> } : Contains(lower(s), w),
           "Contains common password terms")

\* the elements of a list
Elems(seq) == {seq[i] : i \in 1..Len(seq)}

\* lines 1093-1129
_generate_recommendations(cache, s, compliance, vulnerabilities) ==
    LET found == Elems(vulnerabilities)
        recs ==
          Opt(~compliance.length_ok,
              "Increase password length to at least 12 characters")
          \o Opt(~compliance.uppercase_ok, "Add uppercase letters (A-Z)")
          \o Opt(~compliance.lowercase_ok, "Add lowercase letters (a-z)")
          \o Opt(~compliance.digits_ok, "Add numeric digits (0-9)")
          \o Opt(~compliance.symbols_ok, "Add special symbols (!@#$%^&*)")
          \o Opt("Low character diversity (many repeated characters)" \in found,
                 "Use more unique characters")
          \o Opt("Contains keyboard patterns" \in found,
                 "Avoid keyboard patterns (qwerty, 123456, etc.)")
          \* line 1119: "repeated character" is a substring of two messages
          \o Opt(found \cap
                   {"Low character diversity (many repeated characters)",
                    "Contains repeated character sequences"} # {},
                 "Avoid repeating the same character multiple times")
          \o Opt(calculate_entropy(cache, s) < 50000,
                 "Increase overall complexity for better security")
    IN  IF Len(recs) = 0 THEN <<"Password meets security requirements">>
        ELSE recs

\* line 1138: hashlib.sha512(...)[:32] subscripts a hash object, which
\* raises TypeError whatever the string is
Sha512SliceRaises(s) == TRUE

\* lines 1131-1141: the keys of the mapping returned; line 1140 catches the
\* error of line 1138
_generate_hash_analysis(s) ==
    IF Sha512SliceRaises(s) THEN {"error"}
    ELSE {"md5", "sha1", "sha256", "sha512"}

----------------------------------------------------------------------------
(* analyze_password (lines 527-580). *)

\* str.upper on one ASCII code point
upper(c) == IF islower(c) THEN c - 32 ELSE c

RECURSIVE CaseVariants(_)
\* every spelling of w in upper and lower case
CaseVariants(w) ==
    IF w = <<>> THEN {<<>>}
    ELSE {<<c>> \o t : c \in {w[1], upper(w[1])}, t \in CaseVariants(Tail(w))}

RECURSIVE Repeat(_, _)
\* u * n
Repeat(u, n) == IF n = 0 THEN <<>> ELSE u \o Repeat(u, n - 1)

\* the strings analysed: the empty string and the short strings over
\* Alphabet, the weak passwords in every letter case, and long strings
AnalyzeInputs ==
    UNION {StringsOfLen(Alphabet, n) : n \in 0..MaxLen}
    \cup UNION {CaseVariants(w) : w \in WEAK_PASSWORDS}
    \cup {Repeat(u, n) : u \in {<<97, 65, 49, 33>>, <<97, 108, 97, 108>>},
                         n \in 1..MaxRepeat}
    \cup { <<97, 65, 33, 108, 76, 63, 50, 48, 50, 52, 98, 66, 35, 120>> }
          \* aA!lL?2024bB#x

\* a lenient policy that excludes the ambiguous characters
UncheckedUnambiguous == [Unchecked EXCEPT !.exclude_ambiguous = TRUE]

\* the policy argument: omitted, the dataclass defaults, a lenient policy,
\* the weakest tier, a lenient policy without ambiguous characters
AnalyzePolicies ==
    {None, <<PasswordPolicy>>, <<Unchecked>>, <<_get_default_policy("minimum")>>,
     <<UncheckedUnambiguous>>}

InitAnalyze ==
    /\ policy \in AnalyzePolicies
    /\ password \in {<<s>> : s \in AnalyzeInputs}
    /\ pc = "analyze"
    /\ length = None
    /\ complexity = "standard"
    /\ eff = None
    /\ attempt = 0
    /\ sampled = FALSE
    /\ rng = {}
    /\ entropy_cache = <<>>
    /\ analysis = None
    /\ batch = None
    /\ args = None

\* lines 538-580; the OverflowError of line 1014 leaves through line 551
AnalyzePassword ==
    /\ pc = "analyze"
    /\ LET s == password[1]
           p == IF policy = None THEN _get_default_policy("standard")
                ELSE policy[1]
           entropy == calculate_entropy(entropy_cache, s)
           cache == CacheAfterEntropy(entropy_cache, s)
           strength_score == _calculate_strength_score(s, entropy)
           policy_compliance == _check_policy_compliance(cache, s, p)
           vulnerabilities == _identify_vulnerabilities(s)
       IN  /\ entropy_cache' = cache
           /\ IF entropy > 0 /\ PowerOverflows(entropy)
              THEN /\ pc' = "overflow_error"
                   /\ analysis' = None
              ELSE /\ pc' = "analysed"
                   /\ analysis' = <<[
                        password |-> s,
                        strength_score |-> strength_score,
                        strength_level |-> _get_strength_level(strength_score),
                        entropy |-> entropy,
                        time_to_crack |-> _estimate_crack_time(entropy),
                        character_analysis |-> _analyze_characters(s),
                        policy_compliance |-> policy_compliance,
                        vulnerabilities |-> vulnerabilities,
                        recommendations |->
                            _generate_recommendations(cache, s,
                                policy_compliance, vulnerabilities),
                        hash_analysis |-> _generate_hash_analysis(s) ]>>
    /\ UNCHANGED <<policy, length, complexity, eff, attempt, password,
                   sampled, args, batch, rng>>

NextAnalyze == AnalyzePassword

SpecAnalyze == InitAnalyze /\ [][NextAnalyze]_vars

----------------------------------------------------------------------------
(* The generate and batch commands of the command line (cli.py). *)

\* the --length values tried; 12 is the default of cli.py lines 148 and 184
CliLengths == {8, 12, 16, 20, 24}

\* cli.py lines 618-651, without a policy file; the batch parser defines
\* none of these options, so hasattr is false for each of them
_create_policy_from_args(a) ==
    LET p1 == IF a.min_entropy # None
              THEN [PasswordPolicy EXCEPT !.entropy_threshold = a.min_entropy[1]]
              ELSE PasswordPolicy
        p2 == IF a.no_uppercase
              THEN [p1 EXCEPT !.require_uppercase = FALSE, !.min_uppercase = 0]
              ELSE p1
        p3 == IF a.no_lowercase
              THEN [p2 EXCEPT !.require_lowercase = FALSE, !.min_lowercase = 0]
              ELSE p2
        p4 == IF a.no_digits
              THEN [p3 EXCEPT !.require_digits = FALSE, !.min_digits = 0]
              ELSE p3
        p5 == IF a.no_symbols
              THEN [p4 EXCEPT !.require_symbols = FALSE, !.min_symbols = 0]
              ELSE p4
        p6 == IF a.exclude_ambiguous
              THEN [p5 EXCEPT !.exclude_ambiguous = TRUE]
              ELSE p5
    IN  IF a.exclude_similar
        THEN [p6 EXCEPT !.exclude_similar = TRUE]
        ELSE p6

\* the parsed arguments (cli.py lines 146-160 and 180-189)
CliArgs ==
    [ command : {"generate", "batch"},
      length : CliLengths,
      complexity : Complexities,
      min_entropy : {None, <<60000>>},
      no_uppercase : {FALSE},
      no_lowercase : {FALSE},
      no_digits : BOOLEAN,
      no_symbols : BOOLEAN,
      exclude_ambiguous : BOOLEAN,
      exclude_similar : {FALSE} ]

InitCli ==
    /\ args \in {<<a>> : a \in CliArgs}
    /\ pc = "cli"
    /\ policy = None
    /\ length = None
    /\ complexity = "standard"
    /\ eff = None
    /\ attempt = 0
    /\ password = None
    /\ sampled = FALSE
    /\ rng = {}
    /\ entropy_cache = <<>>
    /\ analysis = None
    /\ batch = None

\* cli.py lines 241-252: the policy built from the options, the length and
\* the complexity are all passed to generate_password
CliGenerate ==
    /\ pc = "cli"
    /\ args[1].command = "generate"
    /\ policy' = <<_create_policy_from_args(args[1])>>
    /\ length' = <<args[1].length>>
    /\ complexity' = args[1].complexity
    /\ pc' = "idle"
    /\ UNCHANGED <<eff, attempt, password, sampled, entropy_cache, analysis,
                   args, batch, rng>>

\* cli.py lines 397-405 with password_generator.py lines 517-520: the length
\* and the complexity are passed on, no policy
CliBatch ==
    /\ pc = "cli"
    /\ args[1].command = "batch"
    /\ policy' = None
    /\ length' = <<args[1].length>>
    /\ complexity' = args[1].complexity
    /\ pc' = "idle"
    /\ UNCHANGED <<eff, attempt, password, sampled, entropy_cache, analysis,
                   args, batch, rng>>

\* cli.py lines 289-291 and 422-424: the error is printed, the command
\* returns 1
CliError ==
    /\ pc = "config_error"
    /\ args # None
    /\ pc' = "exit_1"
    /\ UNCHANGED <<policy, length, complexity, eff, attempt, password,
                   sampled, entropy_cache, analysis, args, batch, rng>>

NextCli ==
    \/ CliGenerate
    \/ CliBatch
    \/ GenerateCall
    \/ CliError

SpecCli == InitCli /\ [][NextCli]_vars

----------------------------------------------------------------------------
(* Claims C7 to C10. *)

\* C7: for the generate and batch commands run with the default --length
\* of 12, the command does not fail, and the policy its passwords are
\* validated against has at least the minimum length of the chosen tier
\* (8, 12, 16, 20, 24).
C7_TierHonoured ==
    (args # None /\ args[1].length = 12) =>
        /\ pc \notin {"config_error", "exit_1"}
        /\ pc = "loop" =>
              eff[1].min_length >= _get_default_policy(args[1].complexity).min_length

\* C8: analyze_password returns an analysis for every input string; it
\* never leaves with an exception.
C8_NeverRaises == pc # "overflow_error"

\* C9 as stated: for the empty string the entropy is 0 and the strength
\* score is 0.
C9_EmptyScoresZero ==
    (pc = "analysed" /\ password[1] = <<>>) =>
        /\ analysis[1].entropy = 0
        /\ analysis[1].strength_score = 0

\* C9 amended: for the empty string the entropy is 0 and the strength score
\* is 10, the full pattern contribution of an unpenalized string, every
\* other contribution being 0; the band is VERY_WEAK.
C9_EmptyScoresTen ==
    (pc \in {"analysed", "overflow_error"} /\ password[1] = <<>>) =>
        /\ pc = "analysed"
        /\ analysis[1].entropy = 0
        /\ analysis[1].strength_score = 10 * 1000
        /\ analysis[1].strength_level = "VERY_WEAK"

C9_Witness == pc = "analysed" /\ password[1] = <<>>

\* C10: for every string whose lower-cased form is a weak password, in any
\* letter case, the analysis is returned with the entropy scaled by the
\* floor multiplier 0.1, lists "Password found in common password lists"
\* and has the band WEAK or VERY_WEAK.
C10_WeakIsLow ==
    (pc \in {"analysed", "overflow_error"}
     /\ lower(password[1]) \in WEAK_PASSWORDS) =>
        /\ pc = "analysed"
        /\ _calculate_pattern_penalty(password[1]) * 10 = PenScale
        /\ analysis[1].entropy =
              Len(password[1])
              * (Log2Milli(charset_size(password[1])) \div 10)
        /\ "Password found in common password lists"
              \in Elems(analysis[1].vulnerabilities)
        /\ analysis[1].strength_level \in {"WEAK", "VERY_WEAK"}

C10_Witness ==
    /\ pc = "analysed"
    /\ lower(password[1]) \in WEAK_PASSWORDS
    /\ password[1] # lower(password[1])
    /\ analysis[1].strength_level = "WEAK"

----------------------------------------------------------------------------
(* generate_passphrase (lines 441-498). *)

\* the entries of WORDLIST that secrets.choice returns in the model
PhraseWords == { <<97, 108, 108>>, <<112, 97, 115, 115>> }   \* all, pass

\* str.capitalize: first character upper case, the others lower case
capitalize(w) == IF w = <<>> THEN w ELSE <<upper(w[1])>> \o lower(Tail(w))

RECURSIVE join(_, _)
\* separator.join(words)
join(separator, words) ==
    IF Len(words) = 0 THEN <<>>
    ELSE IF Len(words) = 1 THEN words[1]
    ELSE words[1] \o separator \o join(separator, Tail(words))

\* lines 465-470: the lists of words the loop can build
WordLists(q) ==
    { [i \in 1..q.word_count |->
          IF q.capitalize THEN capitalize(ws[i]) ELSE ws[i]] :
      ws \in [1..q.word_count -> PhraseWords] }

\* the digit str(secrets.randbelow(10)) gives in the model
PhraseDigits == {49}

\* lines 475-476: 2 to 4 digits
Numbers == UNION {StringsOfLen(PhraseDigits, n) : n \in 2..4}

\* lines 480-481: 1 to 2 basic symbols
Symbols == UNION {StringsOfLen(Draw(SYMBOLS_BASIC), n) : n \in 1..2}

\* a frame that appends the symbols before the numbers
PhrasesSymbolsFirst(q) ==
    { join(q.separator, words)
      \o (IF q.add_symbols THEN q.separator \o symbols ELSE <<>>)
      \o (IF q.add_numbers THEN q.separator \o numbers ELSE <<>>) :
      words \in WordLists(q),
      numbers \in (IF q.add_numbers THEN Numbers ELSE {<<>>}),
      symbols \in (IF q.add_symbols THEN Symbols ELSE {<<>>}) }

\* lines 472-483: every passphrase one frame can assemble
Phrases(q) ==
    { join(q.separator, words)
      \o (IF q.add_numbers THEN q.separator \o numbers ELSE <<>>)
      \o (IF q.add_symbols THEN q.separator \o symbols ELSE <<>>) :
      words \in WordLists(q),
      numbers \in (IF q.add_numbers THEN Numbers ELSE {<<>>}),
      symbols \in (IF q.add_symbols THEN Symbols ELSE {<<>>}) }

\* line 467: a word is drawn by secrets.choice
WordSource == "secrets.choice"

\* line 475: the number of digits is drawn by secrets.randbelow
DigitCountSource == "secrets.randbelow"

\* line 476: each digit is drawn by secrets.randbelow
DigitSource == "secrets.randbelow"

\* line 480: the number of symbols is drawn by secrets.randbelow
SymbolCountSource == "secrets.randbelow"

\* line 481: each symbol is drawn by secrets.choice
SymbolSource == "secrets.choice"

\* lines 465-483: the draws of one frame
PhraseDraws(q) ==
    {DrawBy("word", WordSource)}
    \cup (IF q.add_numbers
          THEN {DrawBy("digit_count", DigitCountSource),
                DrawBy("digit", DigitSource)}
          ELSE {})
    \cup (IF q.add_symbols
          THEN {DrawBy("symbol_count", SymbolCountSource),
                DrawBy("symbol", SymbolSource)}
          ELSE {})

\* a frame that accepts every phrase
NeverTooWeak(entropy, min_entropy) == FALSE

\* line 487: the phrase is below the requirement
TooWeak(entropy, min_entropy) == entropy < min_entropy

\* lines 489-496: the parameters of the recursive call
Recursed(q) == [q EXCEPT !.word_count = q.word_count + 1, !.add_symbols = TRUE]

\* the calls the model makes: the options in their combinations with the
\* requirements 0 and 50 bits, and the default options with a requirement
\* of 100000 bits
PassphraseArgs ==
    [ word_count : 1..3,
      separator : {<<45>>, <<>>},
      capitalize : BOOLEAN,
      add_numbers : BOOLEAN,
      add_symbols : BOOLEAN,
      min_entropy : {0, 50 * 1000} ]
    \cup
    [ word_count : {2},
      separator : {<<45>>},
      capitalize : {TRUE},
      add_numbers : {TRUE},
      add_symbols : {FALSE},
      min_entropy : {100000 * 1000} ]

InitPassphrase ==
    /\ args \in {<<q>> : q \in PassphraseArgs}
    /\ eff = args
    /\ pc = "passphrase"
    /\ attempt = 0
    /\ policy = None
    /\ length = None
    /\ complexity = "standard"
    /\ password = None
    /\ sampled = FALSE
    /\ rng = {}
    /\ entropy_cache = <<>>
    /\ analysis = None
    /\ batch = None

\* lines 462-463
PassphraseWordCountError ==
    /\ pc = "passphrase"
    /\ eff[1].word_count < 2
    /\ pc' = "word_count_error"
    /\ UNCHANGED <<policy, length, complexity, eff, attempt, password, sampled,
                   entropy_cache, analysis, args, batch, rng>>

\* lines 465-498: one frame assembles a phrase, computes its entropy and
\* returns it or calls itself
GeneratePassphrase ==
    /\ pc = "passphrase"
    /\ eff[1].word_count >= 2
    /\ \E phrase \in Phrases(eff[1]) :
         LET entropy == calculate_entropy(entropy_cache, phrase)
         IN  /\ entropy_cache' = CacheAfterEntropy(entropy_cache, phrase)
             /\ sampled' = TRUE
             /\ rng' = rng \cup PhraseDraws(eff[1])
             /\ IF TooWeak(entropy, eff[1].min_entropy)
                THEN IF attempt + 1 >= MaxDepth
                     THEN /\ pc' = "recursion_error"
                          /\ UNCHANGED <<eff, attempt, password>>
                     ELSE /\ pc' = "passphrase"
                          /\ eff' = <<Recursed(eff[1])>>
                          /\ attempt' = attempt + 1
                          /\ password' = password
                ELSE /\ pc' = "returned"
                     /\ password' = <<phrase>>
                     /\ UNCHANGED <<eff, attempt>>
    /\ UNCHANGED <<policy, length, complexity, analysis, args, batch>>

NextPassphrase ==
    \/ PassphraseWordCountError
    \/ GeneratePassphrase

SpecPassphrase == InitPassphrase /\ [][NextPassphrase]_vars

----------------------------------------------------------------------------
(* Claims C11 to C13. *)

\* the words a phrase of the model can hold, as drawn or capitalized
WordForms == PhraseWords \cup {capitalize(w) : w \in PhraseWords}

\* s is n words joined by sep, then sep and 2 to 4 digits if numbers, then
\* sep and 1 to 2 basic symbols if symbols
HasShape(s, n, sep, numbers, symbols) ==
    \E ws \in [1..n -> WordForms] :
      \E k \in 0..4 : \E j \in 0..2 :
        /\ (numbers /\ k >= 2) \/ (~numbers /\ k = 0)
        /\ (symbols /\ j >= 1) \/ (~symbols /\ j = 0)
        /\ LET head == join(sep, ws)
               a == Len(head) + (IF numbers THEN Len(sep) ELSE 0)
               b == a + k + (IF symbols THEN Len(sep) ELSE 0)
           IN  /\ Len(s) = b + j
               /\ SubSeq(s, 1, Len(head)) = head
               /\ numbers => SubSeq(s, Len(head) + 1, a) = sep
               /\ \A i \in (a + 1)..(a + k) : s[i] \in DIGITS
               /\ symbols => SubSeq(s, a + k + 1, b) = sep
               /\ \A i \in (b + 1)..(b + j) : s[i] \in SYMBOLS_BASIC

\* C11: a phrase returned by the first frame is exactly word_count words
\* joined by the separator, then the separator and 2 to 4 digits if
\* add_numbers, then the separator and 1 to 2 basic symbols if add_symbols;
\* a call with word_count < 2 raises and returns nothing.
C11_PhraseShape ==
    /\ (pc = "returned" /\ attempt = 0) =>
          HasShape(password[1], args[1].word_count, args[1].separator,
                   args[1].add_numbers, args[1].add_symbols)
    /\ (pc # "passphrase" /\ args[1].word_count < 2) =>
          (pc = "word_count_error" /\ password = None)

C11_Witness ==
    /\ pc = "returned" /\ attempt = 0
    /\ args[1].add_numbers /\ args[1].add_symbols
    /\ args[1].word_count = 3

\* C12: a returned phrase has entropy >= min_entropy; a frame whose phrase
\* is below min_entropy returns nothing and calls itself with one more word
\* and add_symbols true, so a phrase returned after recursion has more
\* words than requested and ends with the symbol suffix.
C12_EntropyOrRecurse ==
    /\ [](pc = "returned" =>
            /\ ComputeEntropy(password[1]) >= args[1].min_entropy
            /\ attempt > 0 =>
                  /\ eff[1].word_count = args[1].word_count + attempt
                  /\ HasShape(password[1], eff[1].word_count,
                              args[1].separator, args[1].add_numbers, TRUE))
    /\ [][(pc = "passphrase" /\ pc' = "passphrase") =>
            (/\ eff'[1] = [eff[1] EXCEPT !.word_count = @ + 1,
                                         !.add_symbols = TRUE]
             /\ password' = None)]_vars

C12_Witness ==
    /\ pc = "returned" /\ attempt > 0
    /\ ~args[1].add_symbols
    /\ args[1].min_entropy > 0

\* C13: every call of generate_passphrase with word_count >= 2 ends by
\* returning a phrase, whatever min_entropy is: none ends in the
\* interpreter's RecursionError.
C13_AlwaysReturns == pc # "recursion_error"

----------------------------------------------------------------------------
(* generate_password called with a tier and no policy (lines 422-430). *)

\* the length argument: absent, or an override
TierLengths == {None} \cup {<<n>> : n \in 4..28}

InitTiers ==
    /\ policy = None
    /\ complexity \in Complexities
    /\ length \in TierLengths
    /\ pc = "idle"
    /\ eff = None
    /\ attempt = 0
    /\ password = None
    /\ sampled = FALSE
    /\ rng = {}
    /\ entropy_cache = <<>>
    /\ analysis = None
    /\ batch = None
    /\ args = None

NextTiers == GenerateCall

SpecTiers == InitTiers /\ [][NextTiers]_vars

\* the tiers from weakest to strongest
TierOrder == <<"minimum", "standard", "high", "maximum", "military">>

\* C14: the tiers resolve to min_length 8, 12, 16, 20, 24 and
\* entropy_threshold 30, 50, 70, 90, 110 bits, the per-class minimums do not
\* decrease from one tier to the next, and every tier has
\* min_length <= max_length and sum of minimums <= min_length, so that a
\* call with a tier and no override passes the feasibility check.
C14_TiersFeasible ==
    /\ \A i \in 1..5 :
         LET t == _get_default_policy(TierOrder[i])
         IN  /\ t.min_length = 4 * (i + 1)
             /\ t.entropy_threshold = (10 + 20 * i) * 1000
             /\ t.min_length <= t.max_length
             /\ min_required(t) <= t.min_length
    /\ \A i \in 1..4 :
         LET t == _get_default_policy(TierOrder[i])
             u == _get_default_policy(TierOrder[i + 1])
         IN  /\ t.min_uppercase <= u.min_uppercase
             /\ t.min_lowercase <= u.min_lowercase
             /\ t.min_digits <= u.min_digits
             /\ t.min_symbols <= u.min_symbols
    /\ (pc # "idle" /\ policy = None /\ length = None) =>
          /\ pc = "loop"
          /\ \E i \in 1..5 :
               /\ complexity = TierOrder[i]
               /\ eff[1].min_length = 4 * (i + 1)
               /\ eff[1].entropy_threshold = (10 + 20 * i) * 1000

C14_Witness ==
    /\ pc = "loop" /\ policy = None /\ length = None
    /\ complexity = "military"
    /\ min_required(eff[1]) = 16 /\ eff[1].min_length = 24

----------------------------------------------------------------------------
(* Claim C15. *)

----------------------------------------------------------------------------
(* batch_generate (lines 500-525) with generate_password as the generator   *)
(* function and a policy among the keyword arguments: every work item is    *)
(* one call of generate_password on the same generator and the same policy  *)
(* object.                                                                  *)

\* line 518: a batch of at most this many items runs in the calling thread
SequentialLimit == 10

\* a pool as large as the batch
UnboundedWorkers(count, cpus) == count

\* line 523: min(count, os.cpu_count() or 4); cpus is os.cpu_count()
max_workers(count, cpus) == Min(count, IF cpus = None THEN 4 ELSE cpus[1])

\* one lowercase letter, nothing drawn for a minimum: the only candidate of
\* the model is "a"
OneChar ==
    [Unchecked EXCEPT !.min_length = 1, !.max_length = 1,
                      !.min_lowercase = 0,
                      !.require_uppercase = FALSE, !.min_uppercase = 0,
                      !.require_digits = FALSE, !.min_digits = 0,
                      !.require_symbols = FALSE, !.min_symbols = 0,
                      !.exclude_ambiguous = TRUE]

\* the policies of the batches
BatchPolicies ==
    { OneChar,
      [OneChar EXCEPT !.exclude_ambiguous = FALSE],      \* "a" or "l"
      [OneChar EXCEPT !.min_lowercase = 2],              \* infeasible
      [OneChar EXCEPT !.require_lowercase = FALSE,       \* "2", below the
                      !.require_digits = TRUE,           \* entropy threshold
                      !.entropy_threshold = 5000] }

\* the calls: count, os.cpu_count(), and the policy and length passed on
BatchCalls ==
    [ count : {-1, 0}, cpus : {None},
      policy : {OneChar}, length : {None} ]
    \cup
    [ count : 1..2, cpus : {None},
      policy : BatchPolicies, length : {None, <<2>>} ]
    \cup
    [ count : {SequentialLimit, SequentialLimit + 1},
      cpus : {None, <<1>>, <<2>>, <<16>>},
      policy : {OneChar}, length : {None, <<2>>} ]

InitBatch ==
    /\ args \in {<<c>> : c \in BatchCalls}
    /\ policy = <<args[1].policy>>
    /\ length = args[1].length
    /\ pc = "batch_idle"
    /\ batch = None
    /\ complexity = "standard"
    /\ eff = None
    /\ attempt = 0
    /\ password = None
    /\ sampled = FALSE
    /\ rng = {}
    /\ entropy_cache = <<>>
    /\ analysis = None

\* line 518
Sequential == args[1].count <= SequentialLimit

\* the number of items that can be running at a time
Workers ==
    IF Sequential THEN 1 ELSE max_workers(args[1].count, args[1].cpus)

\* the items whose call is running, and those whose call has raised
InFlight == {i \in 1..args[1].count : batch[1].items[i].pc = "loop"}
Failed ==
    {i \in 1..args[1].count :
        batch[1].items[i].pc \in {"config_error", "value_error", "pool_error",
                                  "exhausted"}}

\* lines 515-516
BatchCountError ==
    /\ pc = "batch_idle"
    /\ args[1].count <= 0
    /\ pc' = "count_error"
    /\ UNCHANGED <<policy, length, complexity, eff, attempt, password, sampled,
                   entropy_cache, analysis, args, batch, rng>>

\* lines 518-524: the items are laid out, none has started
BatchStart ==
    /\ pc = "batch_idle"
    /\ args[1].count > 0
    /\ pc' = "batch_running"
    /\ batch' = <<[ next |-> 1,
                    items |-> [i \in 1..args[1].count |->
                                 [pc |-> "queued", attempt |-> 0,
                                  result |-> None,
                                  reads |-> {}, writes |-> {}]] ]>>
    /\ UNCHANGED <<policy, length, complexity, eff, attempt, password, sampled,
                   entropy_cache, analysis, args, rng>>

\* the next item starts: lines 422-430 of its generate_password call, on
\* the policy object shared by the items
ItemCall ==
    /\ pc = "batch_running"
    /\ batch[1].next <= args[1].count
    /\ Cardinality(InFlight) < Workers
    /\ Sequential => Failed = {}
    /\ LET i == batch[1].next
           p1 == ApplyLength(policy[1], length)
       IN  /\ policy' = <<p1>>
           /\ batch' = <<[batch[1] EXCEPT
                 !.next = i + 1,
                 !.items[i].pc = IF _validate_policy(p1) THEN "loop"
                                 ELSE "config_error",
                 !.items[i].reads = {"policy"},
                 !.items[i].writes = IF length # None THEN {"policy"}
                                     ELSE {}]>>
    /\ UNCHANGED <<length, complexity, pc, eff, attempt, password, sampled,
                   entropy_cache, analysis, args, rng>>

\* lines 433-439 of a running item: one pass of its loop, or its end
ItemAttempt ==
    /\ pc = "batch_running"
    /\ \E i \in InFlight :
         LET it == batch[1].items[i]
             p == policy[1]
         IN  IF ~(it.attempt < max_attempts)
             THEN /\ batch' = <<[batch[1] EXCEPT !.items[i].pc = "exhausted"]>>
                  /\ UNCHANGED <<entropy_cache, rng>>
             ELSE IF LengthDrawRaises(p)
             THEN /\ batch' = <<[batch[1] EXCEPT !.items[i].pc = "value_error"]>>
                  /\ UNCHANGED <<entropy_cache, rng>>
             ELSE IF PoolEmpty(p)
             THEN /\ batch' = <<[batch[1] EXCEPT !.items[i].pc = "pool_error"]>>
                  /\ entropy_cache' = entropy_cache
                  /\ rng' = rng \cup DrawsBeforePool(p)
             ELSE \E len \in DrawnLengths(p) : \E s \in Candidates(p, len) :
                    LET cache == CacheAfterValidate(entropy_cache, s, p)
                        reads == it.reads \cup {"policy"}
                                 \cup (IF PassesBeforeEntropy(s, p)
                                       THEN {"_entropy_cache"} ELSE {})
                        writes == it.writes
                                  \cup (IF cache # entropy_cache
                                        THEN {"_entropy_cache"} ELSE {})
                    IN  /\ entropy_cache' = cache
                        /\ rng' = rng \cup CandidateDraws(p, len)
                        /\ batch' = <<[batch[1] EXCEPT !.items[i] =
                             IF _validate_password(entropy_cache, s, p)
                             THEN [it EXCEPT !.pc = "returned",
                                             !.result = <<s>>,
                                             !.reads = reads,
                                             !.writes = writes]
                             ELSE [it EXCEPT !.attempt = it.attempt + 1,
                                             !.reads = reads,
                                             !.writes = writes]]>>
    /\ UNCHANGED <<policy, length, complexity, pc, eff, attempt, password,
                   sampled, analysis, args>>

\* lines 520 and 525: the list of the results, or the error of an item
BatchReturn ==
    /\ pc = "batch_running"
    /\ InFlight = {}
    /\ batch[1].next > args[1].count \/ (Sequential /\ Failed # {})
    /\ IF Failed # {}
       THEN /\ pc' = "batch_error"
            /\ password' = None
       ELSE /\ pc' = "batch_returned"
            /\ password' = <<[i \in 1..args[1].count |->
                                batch[1].items[i].result[1]]>>
    /\ UNCHANGED <<policy, length, complexity, eff, attempt, sampled,
                   entropy_cache, analysis, args, batch, rng>>

NextBatch ==
    \/ BatchCountError
    \/ BatchStart
    \/ ItemCall
    \/ ItemAttempt
    \/ BatchReturn

SpecBatch == InitBatch /\ [][NextBatch]_vars

----------------------------------------------------------------------------
(* Claims C16 and C17. *)

\* C16: in a batch run on the worker pool, no item's generate_password call
\* writes a location (the generator's entropy cache, the policy object)
\* that the call of another item of the batch reads or writes.
C16_NoSharedState ==
    (batch # None /\ ~Sequential) =>
        \A i \in 1..args[1].count : \A j \in (1..args[1].count) \ {i} :
            batch[1].items[i].writes
            \cap (batch[1].items[j].reads \cup batch[1].items[j].writes) = {}

\* C17: a batch with count >= 1 that returns gives exactly count results,
\* the i-th being the password returned by the i-th call and accepted by
\* the validator; at most one item runs at a time, in order, when
\* count <= 10, and at most min(count, os.cpu_count() or 4) otherwise;
\* count <= 0 raises before any item exists; a batch with a failed item
\* does not return a list; and a running batch always has a next step.
C17_BatchResults ==
    /\ [](pc = "batch_returned" =>
            /\ Len(password[1]) = args[1].count
            /\ \A i \in 1..args[1].count :
                 /\ batch[1].items[i].pc = "returned"
                 /\ password[1][i] = batch[1].items[i].result[1]
                 /\ PassesBeforeEntropy(password[1][i], policy[1])
                 /\ ComputeEntropy(password[1][i])
                       >= policy[1].entropy_threshold)
    /\ [](batch # None =>
            /\ Cardinality(InFlight)
                  <= (IF args[1].count <= 10 THEN 1
                      ELSE IF args[1].cpus = None THEN Min(args[1].count, 4)
                      ELSE Min(args[1].count, args[1].cpus[1]))
            /\ args[1].count <= 10 =>
                  \A i \in 2..args[1].count :
                     batch[1].items[i].pc # "queued" =>
                        batch[1].items[i - 1].pc = "returned"
            /\ Failed # {} => pc # "batch_returned")
    /\ [](args[1].count <= 0 =>
            (pc \in {"batch_idle", "count_error"} /\ batch = None))
    /\ [](pc = "batch_running" => ENABLED NextBatch)

C17_Witness ==
    /\ pc = "batch_returned"
    /\ args[1].count = 11
    /\ args[1].cpus = <<2>>
    /\ Len(password[1]) = 11

----------------------------------------------------------------------------
(* Claims C18 to C20. *)

\* C18: an analysis made without a policy has an empty policy_compliance
\* mapping.
C18_NoPolicyNoCompliance ==
    (pc = "analysed" /\ policy = None) =>
        DOMAIN analysis[1].policy_compliance = {}

\* C19: the hash_analysis of a returned analysis holds the MD5 and SHA-256
\* digests of the string and no error entry.
C19_DigestsPresent ==
    pc = "analysed" =>
        /\ {"md5", "sha256"} \subseteq analysis[1].hash_analysis
        /\ "error" \notin analysis[1].hash_analysis

\* C20: the recommendations of a returned analysis are not empty, and they
\* are the single message "Password meets security requirements" exactly
\* when every compliance check passed and no vulnerability was found.
C20_MeetsOnlyWhenClean ==
    pc = "analysed" =>
        /\ Len(analysis[1].recommendations) > 0
        /\ (analysis[1].recommendations
               = <<"Password meets security requirements">>)
           <=> (/\ \A k \in DOMAIN analysis[1].policy_compliance :
                      analysis[1].policy_compliance[k]
                /\ analysis[1].vulnerabilities = <<>>)

----------------------------------------------------------------------------
(* generate_password and generate_passphrase calls of one generator. *)

InitGenerators == Init \/ InitPassphrase

NextGenerators == Next \/ NextPassphrase

SpecGenerators == InitGenerators /\ [][NextGenerators]_vars

\* line 15: the functions of the secrets module the generator draws with
SecureSources ==
    {"secrets.randbelow", "secrets.choice", "secrets.SystemRandom.shuffle"}

\* C21: every random draw made while a password (length, seed characters,
\* fill characters, permutation) or a passphrase (words, digit count, digits,
\* symbol count, symbols) is generated is made by a function of the secrets
\* module.
C21_SecureDraws == \A d \in rng : d.by \in SecureSources

\* a password was returned after all four kinds of draw were made
C21_Witness ==
    /\ pc = "returned"
    /\ args = None
    /\ {d.draw : d \in rng} = {"length", "seed", "fill", "shuffle"}

----------------------------------------------------------------------------
\* every entry of the mapping _check_policy_compliance returns is true
AllCompliant(compliance) ==
    \A k \in DOMAIN compliance : compliance[k]

\* C22: the validator gate and the compliance report run the same checks:
\* _validate_password accepts a string under a policy exactly when every
\* entry of the compliance mapping of that string and policy is true.
C22_GateIsCompliance ==
    pc = "analysed" =>
        LET p == IF policy = None THEN _get_default_policy("standard")
                 ELSE policy[1]
        IN  _validate_password(entropy_cache, password[1], p)
            <=> AllCompliant(analysis[1].policy_compliance)

----------------------------------------------------------------------------
(* _validate_password called on its own (lines 812-845). *)

\* the longest of the short strings validated
MaxValidateLen == 3

\* a b c C 1 2 3 !
ValidateAlphabet == {97, 98, 99, 67, 49, 50, 51, 33}

\* lines 852: the sequences the check lists
sequences ==
    { <<97, 98, 99>>, <<49, 50, 51>>, <<113, 119, 101>>, <<97, 115, 100>>,
      <<122, 120, 99>>, <<119, 101, 114>>, <<101, 114, 116>>,
      <<114, 116, 121>> }

\* the strings validated: the short strings over ValidateAlphabet, the listed
\* sequences in every letter case, and the strings of 4 and 5 letters a and A
ValidateInputs ==
    UNION {StringsOfLen(ValidateAlphabet, n) : n \in 0..MaxValidateLen}
    \cup UNION {CaseVariants(q) : q \in sequences}
    \cup StringsOfLen({97, 65}, 4) \cup StringsOfLen({97, 65}, 5)

\* a policy that demands nothing
Lenient ==
    [Unchecked EXCEPT !.min_length = 0, !.min_uppercase = 0,
                      !.min_lowercase = 0, !.min_digits = 0,
                      !.min_symbols = 0]

\* the policies of the validator calls: the two pattern checks on and off,
\* max_consecutive 1 to 3
ValidatePolicies ==
    { [Lenient EXCEPT !.exclude_sequential = sq, !.exclude_repetitive = rp,
                      !.max_consecutive = mc] :
      sq \in BOOLEAN, rp \in BOOLEAN, mc \in 1..3 }

InitValidate ==
    /\ policy \in {<<p>> : p \in ValidatePolicies}
    /\ password \in {<<s>> : s \in ValidateInputs}
    /\ pc = "validate"
    /\ length = None
    /\ complexity = "standard"
    /\ eff = None
    /\ attempt = 0
    /\ sampled = FALSE
    /\ rng = {}
    /\ entropy_cache = <<>>
    /\ analysis = None
    /\ batch = None
    /\ args = None

\* lines 812-845
ValidatePassword ==
    /\ pc = "validate"
    /\ pc' = IF _validate_password(entropy_cache, password[1], policy[1])
             THEN "accepted" ELSE "rejected"
    /\ entropy_cache' = CacheAfterValidate(entropy_cache, password[1], policy[1])
    /\ UNCHANGED <<policy, length, complexity, eff, attempt, password, sampled,
                   analysis, args, batch, rng>>

NextValidate == ValidatePassword

SpecValidate == InitValidate /\ [][NextValidate]_vars

\* the lower-cased form of s contains one of the listed sequences
HasListedSequence(s) ==
    \E i \in 1..(Len(s) - 2) : SubSeq(lower(s), i, i + 2) \in sequences

\* three consecutive characters of s ascend by one each or descend by one
\* each
HasRunOfThree(s) ==
    \E i \in 1..(Len(s) - 2) : \E d \in {1, -1} :
        s[i + 1] - s[i] = d /\ s[i + 2] - s[i + 1] = d

\* C23: with exclude_sequential set the validator rejects a string exactly
\* when its lower-cased form contains one of abc, 123, qwe, asd, zxc, wer,
\* ert, rty or three consecutive characters ascend or descend by one; with
\* exclude_sequential unset the check never rejects (the other checks being
\* off).
C23_SequentialExact ==
    (pc \in {"accepted", "rejected"} /\ ~policy[1].exclude_repetitive) =>
        (pc = "rejected" <=>
            /\ policy[1].exclude_sequential
            /\ HasListedSequence(password[1]) \/ HasRunOfThree(password[1]))

\* "aBc" is rejected for the listed sequence its lower-cased form contains
C23_Witness ==
    /\ pc = "rejected"
    /\ policy[1].exclude_sequential /\ ~policy[1].exclude_repetitive
    /\ password[1] = <<97, 66, 99>>

----------------------------------------------------------------------------
(* The validator on its own and inside generate_password. *)

InitGate == Init \/ InitValidate

NextGate == Next \/ NextValidate

SpecGate == InitGate /\ [][NextGate]_vars

\* some character occurs more than n times in a row in s
HasRunLongerThan(s, n) ==
    \E i \in 1..(Len(s) - n) : \A j \in 1..n : s[i + j] = s[i]

\* C24: with exclude_repetitive set the validator rejects a string exactly
\* when some character occurs more than max_consecutive times in a row (the
\* other checks being off), and no password generate_password returns under
\* such a policy has a run longer than max_consecutive.
C24_RepetitiveExact ==
    /\ (pc \in {"accepted", "rejected"} /\ ~policy[1].exclude_sequential) =>
          (pc = "rejected" <=>
              /\ policy[1].exclude_repetitive
              /\ HasRunLongerThan(password[1], policy[1].max_consecutive))
    /\ (pc = "returned" /\ eff[1].exclude_repetitive) =>
          ~HasRunLongerThan(password[1], eff[1].max_consecutive)

\* "aaAA" is accepted with max_consecutive = 2: runs of two are allowed
C24_Witness ==
    /\ pc = "accepted"
    /\ policy[1].exclude_repetitive /\ policy[1].max_consecutive = 2
    /\ password[1] = <<97, 97, 65, 65>>

----------------------------------------------------------------------------
RECURSIVE Power(_, _)
\* b ** n
Power(b, n) == IF n = 0 THEN 1 ELSE b * Power(b, n - 1)

\* 0.8^k * w * q in units of 1/PenScale, where w is 1/wden and q is qnum/10
PenaltyFormula(k, wden, qnum) ==
    (PenScale \div (Power(5, k) * wden * 10)) * Power(4, k) * qnum

\* C25: the pattern-penalty multiplier of a string equals
\* max(0.1, 0.8^k * w * q), k being the number of the five patterns that
\* match, w = 0.1 for a weak password and 1 otherwise, q = 0.7 with a keyboard
\* pattern and 1 otherwise; it lies in [0.1, 1], and the entropy returned
\* never exceeds length * log2(charset_size).
C25_PenaltyFormula ==
    pc = "analysed" =>
        LET s == password[1]
            k == PatternMatches(s)
            wden == IF lower(s) \in WEAK_PASSWORDS THEN 10 ELSE 1
            qnum == IF _has_keyboard_pattern(s) THEN 7 ELSE 10
            m == _calculate_pattern_penalty(s)
        IN  /\ m = Max(PenScale \div 10, PenaltyFormula(k, wden, qnum))
            /\ PenScale \div 10 <= m /\ m <= PenScale
            /\ analysis[1].entropy
                 = Len(s) * (IF charset_size(s) = 0 THEN 0
                             ELSE (Log2Milli(charset_size(s)) * m) \div PenScale)
            /\ charset_size(s) > 0 =>
                 analysis[1].entropy <= Len(s) * Log2Milli(charset_size(s))

\* "Qwerty" was analysed: a weak password with a listed sequence and a
\* keyboard pattern, whose product 0.8 * 0.1 * 0.7 is floored at 0.1
C25_Witness ==
    /\ pc = "analysed"
    /\ password[1] = <<81, 119, 101, 114, 116, 121>>
    /\ PenaltyProduct(password[1]) < PenScale \div 10
    /\ analysis[1].entropy = 6 * (Log2Milli(52) \div 10)

----------------------------------------------------------------------------
(* calculate_entropy of src/main.py (lines 517-535). *)

\* lines 522-530: the character space, by the classes present
main_charset_size(s) ==
    (IF AnyIn(s, LOWERCASE) THEN 26 ELSE 0)
    + (IF AnyIn(s, UPPERCASE) THEN 26 ELSE 0)
    + (IF AnyIn(s, DIGITS) THEN 10 ELSE 0)
    + (IF AnyIn(s, SYMBOLS_EXTENDED) THEN 23 ELSE 0)

\* C26: both calculate_entropy implementations use the same charset_size for
\* the same string: 26 for lowercase, 26 for uppercase, 10 for digits and the
\* number of characters of the extended symbol set for symbols, summed over
\* the classes present.
C26_SameCharsetSize ==
    pc = "analysed" =>
        /\ main_charset_size(password[1]) = charset_size(password[1])
        /\ AnyIn(password[1], SYMBOLS_EXTENDED) =>
             main_charset_size(password[1]) >= Cardinality(SYMBOLS_EXTENDED)

----------------------------------------------------------------------------
\* C27: across the recursion levels of one generate_passphrase call the
\* entropy of the assembled phrase never decreases: the phrase a deeper
\* level assembles has at least the entropy of every phrase assembled at
\* the levels before it.
C27_EntropyNeverDecreases ==
    [][(pc = "passphrase" /\ attempt > 0 /\ sampled') =>
          \A t \in (DOMAIN entropy_cache') \ (DOMAIN entropy_cache) :
              \A s \in DOMAIN entropy_cache :
                  entropy_cache'[t] >= entropy_cache[s]]_vars

----------------------------------------------------------------------------
\* some class is not required although its minimum count is positive
UnrequiredMinimum(p) ==
    \/ ~p.require_lowercase /\ p.min_lowercase > 0
    \/ ~p.require_uppercase /\ p.min_uppercase > 0
    \/ ~p.require_digits /\ p.min_digits > 0
    \/ ~p.require_symbols /\ p.min_symbols > 0

----------------------------------------------------------------------------
\* C29: for a feasible policy with min_length <= max_length in which every
\* class with a positive minimum is required, every candidate
\* _generate_candidate_password builds has a length within
\* [min_length, max_length] and meets the four per-class minimum counts, so
\* the validator rejects it only for a sequential or repetitive pattern, a
\* dictionary word or too little entropy.
C29_CandidatesMeetCounts ==
    (/\ pc = "loop" /\ LoopRuns
     /\ _validate_policy(eff[1])
     /\ eff[1].min_length <= eff[1].max_length
     /\ ~PoolEmpty(eff[1])
     /\ ~UnrequiredMinimum(eff[1])) =>
        \A len \in DrawnLengths(eff[1]) : \A s \in Candidates(eff[1], len) :
            /\ eff[1].min_length <= Len(s) /\ Len(s) <= eff[1].max_length
            /\ CountIn(s, UPPERCASE) >= eff[1].min_uppercase
            /\ CountIn(s, LOWERCASE) >= eff[1].min_lowercase
            /\ CountIn(s, DIGITS) >= eff[1].min_digits
            /\ CountIn(s, SYMBOLS_EXTENDED) >= eff[1].min_symbols
            /\ ~_validate_password(entropy_cache, s, eff[1]) =>
                 \/ eff[1].exclude_sequential /\ _has_sequential_pattern(s)
                 \/ /\ eff[1].exclude_repetitive
                    /\ _has_repetitive_pattern(s, eff[1].max_consecutive)
                 \/ eff[1].exclude_dictionary /\ _contains_dictionary_word(s)
                 \/ calculate_entropy(entropy_cache, s)
                      < eff[1].entropy_threshold

\* a candidate of such a policy, which draws required characters, was
\* rejected
C29_Witness ==
    /\ pc = "loop" /\ attempt > 0
    /\ _validate_policy(eff[1])
    /\ eff[1].min_length <= eff[1].max_length
    /\ ~PoolEmpty(eff[1])
    /\ ~UnrequiredMinimum(eff[1])
    /\ RequiredCount(eff[1]) > 0

----------------------------------------------------------------------------
(* A session: calls made one after the other on one generator, whose       *)
(* entropy cache lives as long as the generator (lines 399-402).           *)

\* one digit: the candidates of the model are "1" and "2"
SessionPolicy ==
    [Unchecked EXCEPT !.min_length = 1, !.max_length = 1,
                      !.require_lowercase = FALSE, !.min_lowercase = 0,
                      !.require_uppercase = FALSE, !.min_uppercase = 0,
                      !.require_symbols = FALSE, !.min_symbols = 0]

\* two plain words joined by "-", no entropy requirement
SessionPhrase ==
    [ word_count |-> 2, separator |-> <<45>>, capitalize |-> FALSE,
      add_numbers |-> FALSE, add_symbols |-> FALSE, min_entropy |-> 0 ]

\* the strings analyse_password and calculate_entropy are called with:
\* "", "1", "password", "all-pass"
SessionStrings ==
    { <<>>, <<49>>, <<112, 97, 115, 115, 119, 111, 114, 100>>,
      <<97, 108, 108, 45, 112, 97, 115, 115>> }

\* the worker threads of a batch whose calculate_entropy calls are followed
\* step by step
SessionWorkers == 2

\* the candidates the workers validate: "a", "l"
WorkerStrings == { <<97>>, <<108>> }

InitSession ==
    /\ pc = "ready"
    /\ entropy_cache = <<>>
    /\ policy = None
    /\ length = None
    /\ complexity = "standard"
    /\ eff = None
    /\ attempt = 0
    /\ password = None
    /\ sampled = FALSE
    /\ rng = {}
    /\ analysis = None
    /\ args = None
    /\ batch = None

\* every worker has got its entropy
WorkersDone ==
    /\ pc = "workers"
    /\ \A w \in 1..SessionWorkers : batch[1][w].pc = "done"

\* no call is running
BetweenCalls ==
    \/ pc \in {"ready", "returned", "analysed", "entropy_returned"}
    \/ WorkersDone

\* the next call starts at newpc: the cache is what the calls before left
NewCall(newpc) ==
    /\ BetweenCalls
    /\ pc' = newpc
    /\ length' = None
    /\ complexity' = "standard"
    /\ attempt' = 0
    /\ sampled' = FALSE
    /\ rng' = {}
    /\ analysis' = None
    /\ UNCHANGED entropy_cache

\* generate_password(policy=SessionPolicy)
CallGeneratePassword ==
    /\ NewCall("idle")
    /\ policy' = <<SessionPolicy>>
    /\ eff' = None /\ password' = None /\ args' = None /\ batch' = None

\* generate_passphrase(word_count=2, capitalize=False, add_numbers=False,
\* min_entropy=0)
CallGeneratePassphrase ==
    /\ NewCall("passphrase")
    /\ args' = <<SessionPhrase>>
    /\ eff' = <<SessionPhrase>>
    /\ policy' = None /\ password' = None /\ batch' = None

\* analyze_password(s)
CallAnalyzePassword ==
    /\ NewCall("analyze")
    /\ password' \in {<<s>> : s \in SessionStrings}
    /\ policy' = None /\ eff' = None /\ args' = None /\ batch' = None

\* calculate_entropy(s)
CallCalculateEntropy ==
    /\ NewCall("entropy")
    /\ password' \in {<<s>> : s \in SessionStrings}
    /\ policy' = None /\ eff' = None /\ args' = None /\ batch' = None

\* lines 582-622
CalculateEntropy ==
    /\ pc = "entropy"
    /\ pc' = "entropy_returned"
    /\ analysis' = <<[entropy |-> calculate_entropy(entropy_cache, password[1])]>>
    /\ entropy_cache' = CacheAfterEntropy(entropy_cache, password[1])
    /\ UNCHANGED <<policy, length, complexity, eff, attempt, password, sampled,
                   args, batch, rng>>

\* lines 523-524: the worker threads of a batch are about to validate a
\* candidate each
CallBatchWorkers ==
    /\ NewCall("workers")
    /\ batch' = <<[w \in 1..SessionWorkers |->
                     [pc |-> "lookup", pending |-> None, entropy |-> None]]>>
    /\ policy' = None /\ eff' = None /\ password' = None /\ args' = None

\* lines 592-596 in a worker: the cache lookup for its candidate
WorkerLookup ==
    /\ pc = "workers"
    /\ \E w \in 1..SessionWorkers : \E s \in WorkerStrings :
         /\ batch[1][w].pc = "lookup"
         /\ batch' = <<[batch[1] EXCEPT ![w] =
              IF s \in DOMAIN entropy_cache
              THEN [pc |-> "done", pending |-> <<s>>,
                    entropy |-> <<entropy_cache[s]>>]
              ELSE [pc |-> "computing", pending |-> <<s>>,
                    entropy |-> None]]>>
    /\ UNCHANGED <<policy, length, complexity, pc, eff, attempt, password,
                   sampled, entropy_cache, analysis, args, rng>>

\* lines 598-622 in a worker: the entropy is computed and stored, whatever
\* the other workers have stored since the lookup
WorkerStore ==
    /\ pc = "workers"
    /\ \E w \in 1..SessionWorkers :
         /\ batch[1][w].pc = "computing"
         /\ LET s == batch[1][w].pending[1]
                entropy == ComputeEntropy(s)
            IN  /\ entropy_cache' = (s :> entropy) @@ entropy_cache
                /\ batch' = <<[batch[1] EXCEPT ![w] =
                     [pc |-> "done", pending |-> <<s>>,
                      entropy |-> <<entropy>>]]>>
    /\ UNCHANGED <<policy, length, complexity, pc, eff, attempt, password,
                   sampled, analysis, args, rng>>

NextSession ==
    \/ CallGeneratePassword
    \/ GenerateCall
    \/ Attempt
    \/ CallGeneratePassphrase
    \/ GeneratePassphrase
    \/ CallAnalyzePassword
    \/ AnalyzePassword
    \/ CallCalculateEntropy
    \/ CalculateEntropy
    \/ CallBatchWorkers
    \/ WorkerLookup
    \/ WorkerStore

SpecSession == InitSession /\ [][NextSession]_vars

\* what calculate_entropy(s) returns on a generator just constructed
FreshEntropy(s) == calculate_entropy(<<>>, s)

\* C30: the entropy cache is transparent: whatever generate_password,
\* generate_passphrase, analyze_password and calculate_entropy calls and
\* whatever interleaved worker calls came before, every cached value, and so
\* every value calculate_entropy returns, is the value a fresh generator
\* returns for that string; and a cached entry is never changed or removed.
C30_CacheTransparent ==
    /\ [](\A s \in DOMAIN entropy_cache : entropy_cache[s] = FreshEntropy(s))
    /\ [](pc \in {"entropy_returned", "analysed"} =>
            analysis[1].entropy = FreshEntropy(password[1]))
    /\ [](pc = "workers" =>
            \A w \in 1..SessionWorkers :
                batch[1][w].pc = "done" =>
                    batch[1][w].entropy[1] = FreshEntropy(batch[1][w].pending[1]))
    /\ [][\A s \in DOMAIN entropy_cache :
             s \in DOMAIN entropy_cache' /\ entropy_cache'[s] = entropy_cache[s]
         ]_vars

\* calculate_entropy("password") has returned from the cache, which calls of
\* every kind have filled
C30_Witness ==
    /\ pc = "entropy_returned"
    /\ password[1] = <<112, 97, 115, 115, 119, 111, 114, 100>>
    /\ rng = {}
    /\ { <<49>>, <<97>>, <<97, 108, 108, 45, 112, 97, 115, 115>>,
         <<112, 97, 115, 115, 119, 111, 114, 100>> }
           \subseteq DOMAIN entropy_cache
    /\ Cardinality(DOMAIN entropy_cache) >= 6

=============================================================================
